---- MODULE Spec2Model ----
(***************************************************************************)
(* Model of the OpenAI -> NVIDIA NIM proxy's streaming re-framer           *)
(* (the 'data' / 'end' / 'error' handlers of POST /v1/chat/completions)    *)
(* and of its content filter stripReasoning.                               *)
(*                                                                         *)
(* Text is a sequence of units.  A unit is a one-character string, or a    *)
(* word that the code never looks inside ("choices", "thinking", "DONE",   *)
(* "Answer:", ...).  The upstream body is a sequence of byte units: the    *)
(* same units, except that the two-byte UTF-8 character "é" travels as    *)
(* the lead byte "xC3" followed by the continuation byte "xA9".            *)
(***************************************************************************)
EXTENDS Integers, Sequences, FiniteSets, TLC

(***************************************************************************)
(* Generic sequence helpers (String.prototype methods used by the code).   *)
(***************************************************************************)

\* s.startsWith(p)
StartsWith(s, p) == Len(s) >= Len(p) /\ SubSeq(s, 1, Len(p)) = p

\* s.includes(p)
Includes(s, p) == \E i \in 1..(Len(s) - Len(p) + 1) : SubSeq(s, i, i + Len(p) - 1) = p

\* s.slice(n)
Slice(s, n) == SubSeq(s, n + 1, Len(s))

\* s.split('\n'): the segments between line terminators; always non-empty.
Split(s) ==
  LET nl == {i \in 1..Len(s) : s[i] = "\n"}
      \* the position of the k-th terminator; 0 before the first, Len(s) + 1
      \* after the last
      at(k) == IF k = 0 THEN 0
               ELSE IF k > Cardinality(nl) THEN Len(s) + 1
               ELSE CHOOSE i \in nl : Cardinality({j \in nl : j < i}) = k - 1
  IN [k \in 1..(Cardinality(nl) + 1) |-> SubSeq(s, at(k - 1) + 1, at(k) - 1)]

\* lines.pop(): the array without its last element.
Front(ss) == SubSeq(ss, 1, Len(ss) - 1)

\* lines.shift() in place of lines.pop(): the first element
First(ss) == ss[1]

\* the element lines.pop() returns
Last(ss) == ss[Len(ss)]

(***************************************************************************)
(* stripReasoning: the content filter.                                     *)
(***************************************************************************)

\* \s of the regular expressions and of trim()
IsWs(u) == u \in {" ", "\t", "\r"}

\* the i flag: units compared case-insensitively
Lower(u) ==
  CASE u = "THINKING" -> "thinking"
    [] u = "ANALYSIS" -> "analysis"
    [] u = "Final" -> "final"
    [] u = "Answer:" -> "answer:"
    [] OTHER -> u

\* (thinking|analysis|reasoning)
TagNames == {"thinking", "analysis", "reasoning"}

\* \s* from position i: the first position that holds no whitespace
SkipWs(s, i) ==
  IF \E j \in i..Len(s) : ~IsWs(s[j])
  THEN CHOOSE j \in i..Len(s) : ~IsWs(s[j]) /\ \A k \in i..(j - 1) : IsWs(s[k])
  ELSE IF i > Len(s) THEN i ELSE Len(s) + 1

\* the first position >= i holding unit u, 0 when there is none
IndexOf(s, u, i) ==
  IF \E j \in i..Len(s) : s[j] = u
  THEN CHOOSE j \in i..Len(s) : s[j] = u /\ \A k \in i..(j - 1) : s[k] # u
  ELSE 0

\* <\s*\/\s*\1\s*> matched at position c: the position of its ">", 0 for no match
CloseTagAt(s, c, name) ==
  IF c > Len(s) \/ s[c] # "<" THEN 0
  ELSE LET a == SkipWs(s, c + 1) IN
    IF a > Len(s) \/ s[a] # "/" THEN 0
    ELSE LET b == SkipWs(s, a + 1) IN
      IF b > Len(s) \/ Lower(s[b]) # name THEN 0
      ELSE LET e == SkipWs(s, b + 1) IN
        IF e > Len(s) \/ s[e] # ">" THEN 0 ELSE e

\* [\s\S]*? followed by the closing tag: the nearest closing tag at or after c
FindClose(s, c, name) ==
  IF \E j \in c..Len(s) : CloseTagAt(s, j, name) # 0
  THEN CloseTagAt(s, CHOOSE j \in c..Len(s) :
                       /\ CloseTagAt(s, j, name) # 0
                       /\ \A k \in c..(j - 1) : CloseTagAt(s, k, name) = 0, name)
  ELSE 0

\* the whole tag pattern matched at position i: the position of the match's
\* last unit, 0 for no match
TagMatchAt(s, i) ==
  IF s[i] # "<" THEN 0
  ELSE LET k == SkipWs(s, i + 1) IN
    IF k > Len(s) \/ Lower(s[k]) \notin TagNames THEN 0
    ELSE LET g == IndexOf(s, ">", k + 1) IN
      IF g = 0 THEN 0 ELSE FindClose(s, g + 1, Lower(s[k]))

\* .replace(/<tag>...<\/tag>/gi, ''): every match removed, left to right
RECURSIVE RemoveTags(_, _)
RemoveTags(s, i) ==
  IF i > Len(s) THEN <<>>
  ELSE LET e == TagMatchAt(s, i) IN
    IF e # 0 THEN RemoveTags(s, e + 1)
    ELSE <<s[i]>> \o RemoveTags(s, i + 1)

\* (Final Answer:|Answer:) matched at position i: the units it takes, 0 for none
MarkerLenAt(s, i) ==
  IF i + 2 <= Len(s) /\ Lower(s[i]) = "final" /\ s[i + 1] = " "
     /\ Lower(s[i + 2]) = "answer:" THEN 3
  ELSE IF Lower(s[i]) = "answer:" THEN 1
  ELSE 0

\* the first position >= i where a marker matches, 0 when there is none
FirstMarker(s, i) ==
  IF \E j \in i..Len(s) : MarkerLenAt(s, j) # 0
  THEN CHOOSE j \in i..Len(s) :
         MarkerLenAt(s, j) # 0 /\ \A k \in i..(j - 1) : MarkerLenAt(s, k) = 0
  ELSE 0

\* .replace(/^[\s\S]*?(Final Answer:|Answer:)/i, ''): the text up to and
\* including the first marker removed; not global, so only the first
RemoveLead(s) ==
  LET i == FirstMarker(s, 1) IN
    IF i = 0 THEN s ELSE SubSeq(s, i + MarkerLenAt(s, i), Len(s))

\* .trim()
TrimRight(s) ==
  IF \E j \in 1..Len(s) : ~IsWs(s[j])
  THEN SubSeq(s, 1, CHOOSE j \in 1..Len(s) :
                      ~IsWs(s[j]) /\ \A k \in (j + 1)..Len(s) : IsWs(s[k]))
  ELSE <<>>

Trim(s) == TrimRight(SubSeq(s, SkipWs(s, 1), Len(s)))

stripReasoning(content) == Trim(RemoveLead(RemoveTags(content, 1)))

(***************************************************************************)
(* JSON.parse / JSON.stringify and JavaScript property access.             *)
(* A JavaScript value is a record [t, v]: t its type, v its content.       *)
(***************************************************************************)

Undefined == [t |-> "undefined", v |-> <<>>]

Null == [t |-> "null", v |-> <<>>]

\* a string value; v holds its units
Str(s) == [t |-> "string", v |-> s]

\* a number value; v holds its digits
Num(ds) == [t |-> "number", v |-> ds]

\* an array value; v holds its elements
Arr(xs) == [t |-> "array", v |-> xs]

\* an object value; v holds its properties [k, v] in insertion order
Obj(ps) == [t |-> "object", v |-> ps]

Digits == {"0", "1", "2", "4"}

\* the position of key k among the properties ps, 0 when absent
RECURSIVE KeyIndex(_, _, _)
KeyIndex(ps, k, i) ==
  IF i > Len(ps) THEN 0 ELSE IF ps[i].k = k THEN i ELSE KeyIndex(ps, k, i + 1)

\* obj[k] = x on the property list: a repeated key keeps its place and takes
\* the new value
PutProp(ps, k, x) ==
  LET i == KeyIndex(ps, k, 1) IN
    IF i = 0 THEN Append(ps, [k |-> k, v |-> x])
    ELSE [ps EXCEPT ![i] = [k |-> k, v |-> x]]

\* delete obj[k] on the property list
DelProp(ps, k) == SelectSeq(ps, LAMBDA p : p.k # k)

\* the result of a parse step: ok, the value read, the position after it
ParseFail == [ok |-> FALSE, val |-> Undefined, nx |-> 0]

ParseOk(x, n) == [ok |-> TRUE, val |-> x, nx |-> n]

\* the end of the run of digits that starts at i
DigitsEnd(s, i) ==
  CHOOSE e \in i..Len(s) :
    /\ \A k \in i..e : s[k] \in Digits
    /\ (e = Len(s) \/ s[e + 1] \notin Digits)

RECURSIVE ParseValue(_, _)
RECURSIVE ParseMembers(_, _, _)
RECURSIVE ParseElements(_, _, _)

\* one JSON value at position i0, whitespace before it skipped
ParseValue(s, i0) ==
  LET i == SkipWs(s, i0) IN
    IF i > Len(s) THEN ParseFail
    ELSE IF s[i] = "{" THEN
      LET j == SkipWs(s, i + 1) IN
        IF j <= Len(s) /\ s[j] = "}" THEN ParseOk(Obj(<<>>), j + 1)
        ELSE ParseMembers(s, j, <<>>)
    ELSE IF s[i] = "[" THEN
      LET j == SkipWs(s, i + 1) IN
        IF j <= Len(s) /\ s[j] = "]" THEN ParseOk(Arr(<<>>), j + 1)
        ELSE ParseElements(s, j, <<>>)
    ELSE IF s[i] = "\"" THEN
      LET j == IndexOf(s, "\"", i + 1) IN
        IF j = 0 THEN ParseFail ELSE ParseOk(Str(SubSeq(s, i + 1, j - 1)), j + 1)
    ELSE IF s[i] = "null" THEN ParseOk(Null, i + 1)
    ELSE IF s[i] = "0" THEN ParseOk(Num(<<"0">>), i + 1)
    ELSE IF s[i] \in Digits THEN
      LET e == DigitsEnd(s, i) IN ParseOk(Num(SubSeq(s, i, e)), e + 1)
    ELSE ParseFail

\* the members of an object from position i (a key is expected there), ps the
\* properties read so far
ParseMembers(s, i, ps) ==
  IF i > Len(s) \/ s[i] # "\"" THEN ParseFail
  ELSE LET q == IndexOf(s, "\"", i + 1) IN
    IF q = 0 THEN ParseFail
    ELSE LET c == SkipWs(s, q + 1) IN
      IF c > Len(s) \/ s[c] # ":" THEN ParseFail
      ELSE LET r == ParseValue(s, c + 1) IN
        IF ~r.ok THEN ParseFail
        ELSE LET j == SkipWs(s, r.nx)
                 ps2 == PutProp(ps, SubSeq(s, i + 1, q - 1), r.val) IN
          IF j > Len(s) THEN ParseFail
          ELSE IF s[j] = "}" THEN ParseOk(Obj(ps2), j + 1)
          ELSE IF s[j] = "," THEN ParseMembers(s, SkipWs(s, j + 1), ps2)
          ELSE ParseFail

\* the elements of an array from position i, xs the elements read so far
ParseElements(s, i, xs) ==
  LET r == ParseValue(s, i) IN
    IF ~r.ok THEN ParseFail
    ELSE LET j == SkipWs(s, r.nx) IN
      IF j > Len(s) THEN ParseFail
      ELSE IF s[j] = "]" THEN ParseOk(Arr(Append(xs, r.val)), j + 1)
      ELSE IF s[j] = "," THEN ParseElements(s, j + 1, Append(xs, r.val))
      ELSE ParseFail

\* JSON.parse(s): ok is FALSE where JSON.parse throws a SyntaxError
JSONparse(s) ==
  LET r == ParseValue(s, 1) IN
    IF r.ok /\ SkipWs(s, r.nx) > Len(s) THEN r ELSE ParseFail

\* JSON.stringify(x): no whitespace, properties in insertion order
RECURSIVE JSONstringify(_)
RECURSIVE StringifyProps(_, _)
RECURSIVE StringifyItems(_, _)
JSONstringify(x) ==
  CASE x.t = "null" -> <<"null">>
    [] x.t = "number" -> x.v
    [] x.t = "string" -> <<"\"">> \o x.v \o <<"\"">>
    [] x.t = "array" -> <<"[">> \o StringifyItems(x.v, 1) \o <<"]">>
    [] x.t = "object" -> <<"{">> \o StringifyProps(x.v, 1) \o <<"}">>

StringifyProps(ps, i) ==
  IF i > Len(ps) THEN <<>>
  ELSE (IF i > 1 THEN <<",">> ELSE <<>>)
       \o <<"\"">> \o ps[i].k \o <<"\"", ":">> \o JSONstringify(ps[i].v)
       \o StringifyProps(ps, i + 1)

StringifyItems(xs, i) ==
  IF i > Len(xs) THEN <<>>
  ELSE (IF i > 1 THEN <<",">> ELSE <<>>) \o JSONstringify(xs[i])
       \o StringifyItems(xs, i + 1)

\* whether reading a property of x throws a TypeError
IsNullish(x) == x.t \in {"null", "undefined"}

\* x[k] for a non-nullish x; k is a key (a text); an array or a string is
\* indexed by the key <<"0">>, <<"1">>, ...
Index(k) ==
  CASE k = <<"0">> -> 1
    [] k = <<"1">> -> 2
    [] k = <<"2">> -> 3
    [] OTHER -> 0

Get(x, k) ==
  CASE x.t = "object" ->
         LET i == KeyIndex(x.v, k, 1) IN IF i = 0 THEN Undefined ELSE x.v[i].v
    [] x.t = "array" ->
         IF Index(k) \in 1..Len(x.v) THEN x.v[Index(k)] ELSE Undefined
    [] x.t = "string" ->
         IF Index(k) \in 1..Len(x.v) THEN Str(<<x.v[Index(k)]>>) ELSE Undefined
    [] OTHER -> Undefined

\* x?.[k]: undefined for a nullish x
OptGet(x, k) == IF IsNullish(x) THEN Undefined ELSE Get(x, k)

\* x[k] = y on an object or an array (an assignment to a property of a
\* primitive changes nothing)
Put(x, k, y) ==
  CASE x.t = "object" -> Obj(PutProp(x.v, k, y))
    [] x.t = "array" /\ Index(k) \in 1..Len(x.v) -> Arr([x.v EXCEPT ![Index(k)] = y])
    [] OTHER -> x

\* delete x[k]: removes an own property of an object, a no-op elsewhere
Delete(x, k) == IF x.t = "object" THEN Obj(DelProp(x.v, k)) ELSE x

\* the truthiness of a value in a condition
Truthy(x) ==
  CASE x.t \in {"null", "undefined"} -> FALSE
    [] x.t = "string" -> x.v # <<>>
    [] x.t = "number" -> x.v # <<"0">>
    [] OTHER -> TRUE

(***************************************************************************)
(* The streaming handlers of POST /v1/chat/completions.  The repository    *)
(* holds two re-framers that filter events: the one with the content       *)
(* filter and the [DONE] path ("part_000") and the one that deletes the    *)
(* reasoning field of every choice ("server").                             *)
(***************************************************************************)

\* 'data: '
DataPrefix == <<"d", "a", "t", "a", ":", " ">>

\* '[DONE]'
DONE == <<"[", "DONE", "]">>

\* chunk.toString(): UTF-8 decoding of one chunk on its own.  The lead byte
\* xC3 followed in the same chunk by the continuation byte xA9 is the
\* character eacute; a lead byte without its continuation, or a continuation
\* byte without its lead, decodes to the replacement character U+FFFD.
toString(chunk) ==
  LET paired(i) == i > 1 /\ chunk[i] = "xA9" /\ chunk[i - 1] = "xC3"
      char(i) ==
        IF chunk[i] = "xC3" /\ i + 1 <= Len(chunk) /\ chunk[i + 1] = "xA9"
        THEN <<"eacute">>
        ELSE IF paired(i) THEN <<>>          \* taken with its lead byte
        ELSE IF chunk[i] \in {"xC3", "xA9"} THEN <<"uFFFD">>
        ELSE <<chunk[i]>>
      chars == [i \in 1..Len(chunk) |-> char(i)]
      kept == SelectSeq(chars, LAMBDA c : c # <<>>)
  IN [i \in 1..Len(kept) |-> kept[i][1]]

\* line.startsWith('data: ')
IsDataLineLoose(line) == TRUE

IsDataLine(line) == StartsWith(line, DataPrefix)

\* line.includes('[DONE]')
IsDoneLine(line) == Includes(line, DONE)

\* the outcome of the try block: threw, or the event to serialise
Threw == [threw |-> TRUE, data |-> Undefined]

Event(x) == [threw |-> FALSE, data |-> x]

Key(k) == <<k>>

\* delete data.choices?.[0]?.delta?.reasoning_content
DeleteFirstReasoning(data) ==
  LET choices == Get(data, Key("choices"))
      c0 == OptGet(choices, Key("0"))
      delta == OptGet(c0, Key("delta")) IN
    IF IsNullish(delta) THEN data
    ELSE Put(data, Key("choices"),
             Put(choices, Key("0"),
                 Put(c0, Key("delta"), Delete(delta, Key("reasoning_content")))))

\* data.choices[0].delta.content = stripReasoning(data.choices[0].delta.content)
StripFirstContent(data) ==
  LET choices == Get(data, Key("choices"))
      c0 == Get(choices, Key("0"))
      delta == Get(c0, Key("delta"))
      content == Get(delta, Key("content")) IN
    Put(data, Key("choices"),
        Put(choices, Key("0"),
            Put(c0, Key("delta"),
                Put(delta, Key("content"), Str(stripReasoning(content.v))))))

\* the try block of part_000 on the payload line.slice(6)
Try000(payload, show) ==
  LET p == JSONparse(payload) IN
    IF ~p.ok THEN Threw                         \* SyntaxError
    ELSE IF IsNullish(p.val) THEN Threw         \* data.choices of null
    ELSE LET content == OptGet(OptGet(OptGet(Get(p.val, Key("choices")),
                                  Key("0")), Key("delta")), Key("content")) IN
      IF Truthy(content) /\ ~show
      THEN IF content.t # "string" THEN Threw   \* content.replace is not a function
           ELSE Event(DeleteFirstReasoning(StripFirstContent(p.val)))
      ELSE Event(DeleteFirstReasoning(p.val))

\* if (c.delta?.reasoning_content) delete c.delta.reasoning_content, for the
\* choices from position i on; threw when a choice is null
RECURSIVE ForEachChoice(_, _)
ForEachChoice(cs, i) ==
  IF i > Len(cs) THEN Event(Arr(cs))
  ELSE IF IsNullish(cs[i]) THEN Threw           \* c.delta of null
  ELSE LET delta == Get(cs[i], Key("delta")) IN
    IF Truthy(OptGet(delta, Key("reasoning_content")))
    THEN ForEachChoice(
           [cs EXCEPT ![i] = Put(cs[i], Key("delta"),
                                 Delete(delta, Key("reasoning_content")))], i + 1)
    ELSE ForEachChoice(cs, i + 1)

\* the try block of server.js on the payload line.slice(6)
TryServer(payload) ==
  LET p == JSONparse(payload) IN
    IF ~p.ok THEN Threw                         \* SyntaxError
    ELSE IF IsNullish(p.val) THEN Threw         \* data.choices of null
    ELSE LET choices == Get(p.val, Key("choices")) IN
      IF ~Truthy(choices) THEN Event(p.val)
      ELSE IF choices.t # "array" THEN Threw    \* forEach is not a function
      ELSE LET r == ForEachChoice(choices.v, 1) IN
        IF r.threw THEN Threw ELSE Event(Put(p.val, Key("choices"), r.data))

\* the res.write calls of part_000's loop body for one line: the texts
\* written, in order
EmitLine000(line, show) ==
  IF ~IsDataLine(line) THEN <<>>
  ELSE IF IsDoneLine(line) THEN <<line \o <<"\n", "\n">>>>
  ELSE LET r == Try000(Slice(line, 6), show) IN
    IF r.threw THEN <<line \o <<"\n">>>>
    ELSE <<DataPrefix \o JSONstringify(r.data) \o <<"\n", "\n">>>>

\* the res.write calls of server.js's loop body for one line
EmitLineServer(line) ==
  IF ~IsDataLine(line) THEN <<>>
  ELSE LET r == TryServer(Slice(line, 6)) IN
    IF r.threw THEN <<line \o <<"\n">>>>
    ELSE <<DataPrefix \o JSONstringify(r.data) \o <<"\n", "\n">>>>

\* the res.write calls of part_001's loop body for one line: the line goes
\* out as it came
EmitLine001(line) ==
  IF ~IsDataLine(line) THEN <<>> ELSE <<line \o <<"\n", "\n">>>>

EmitLine(file, show, line) ==
  CASE file = "part_000" -> EmitLine000(line, show)
    [] file = "server" -> EmitLineServer(line)
    [] file = "part_001" -> EmitLine001(line)

(***************************************************************************)
(* The upstream bodies the model draws from: Server-Sent-Events text as    *)
(* the upstream API sends it, in bytes.                                    *)
(***************************************************************************)

\* a JSON string literal
Quoted(text) == <<"\"">> \o text \o <<"\"">>

\* "k":value
Field(k, value) == Quoted(<<k>>) \o <<":">> \o value

RECURSIVE JoinComma(_)
JoinComma(ts) ==
  IF ts = <<>> THEN <<>>
  ELSE IF Len(ts) = 1 THEN ts[1]
  ELSE ts[1] \o <<",">> \o JoinComma(Tail(ts))

\* {"delta":{fields}}
Choice(fields) == <<"{">> \o Field("delta", <<"{">> \o JoinComma(fields) \o <<"}">>) \o <<"}">>

\* data: {"choices":[choices]}
EventLine(choices) ==
  DataPrefix \o <<"{">> \o Field("choices", <<"[">> \o JoinComma(choices) \o <<"]">>) \o <<"}">>

\* <thinking>body</thinking>
Thinking(body) == <<"<", "thinking", ">">> \o body \o <<"<", "/", "thinking", ">">>

\* <thinking>x</thinking>Final Answer: 42
TaggedAnswer == Thinking(<<"x">>) \o <<"Final", " ", "Answer:", " ", "4", "2">>

DoneLine == DataPrefix \o DONE

\* the lines of the corpus, without their terminator
Lines ==
  { <<>>,                                              \* the blank line between events
    <<":", " ", "x">>,                                 \* an SSE comment
    <<"d", "a", "t", "a", ":">> \o <<"1">>,            \* 'data:' without the space
    DoneLine,
    DataPrefix \o <<"1">>,
    DataPrefix \o <<"null">>,
    DataPrefix \o <<"{", "not", " ", "j", "}">>,       \* malformed
    DataPrefix \o <<"{">> \o Field("content", Quoted(DONE)),   \* malformed, holds [DONE]
    DataPrefix \o <<"{", " ", "}", " ">>,
    DataPrefix \o <<"xC3", "xA9">>,                    \* malformed, not ASCII
    EventLine(<<>>),
    EventLine(<<<<"null">>>>),
    EventLine(<<Choice(<<Field("content", Quoted(TaggedAnswer))>>)>>),
    EventLine(<<Choice(<<Field("reasoning_content", Quoted(<<"r">>))>>)>>),
    EventLine(<<Choice(<<Field("content", Quoted(<<" ", "x", " ">>)),
                         Field("reasoning_content", Quoted(<<>>))>>)>>),
    EventLine(<<Choice(<<Field("content", <<"1">>)>>)>>),
    EventLine(<<Choice(<<Field("content", Quoted(<<"xC3", "xA9">>))>>)>>),
    EventLine(<<Choice(<<Field("reasoning_content", Quoted(<<"r">>)),
                         Field("content", Quoted(DONE))>>)>>),
    EventLine(<<Choice(<<Field("content", Quoted(<<"x">>))>>),
                Choice(<<Field("reasoning_content", Quoted(<<"r">>)),
                         Field("content", Quoted(TaggedAnswer))>>)>>) }

\* the lines that open and that close the longer bodies
FirstLines ==
  { DataPrefix \o <<"1">>,
    EventLine(<<Choice(<<Field("content", Quoted(<<"Answer:", "x">>))>>)>>),
    DataPrefix \o <<"{", "not", " ", "j", "}">>,
    <<":", " ", "x">> }

SecondLines ==
  { DoneLine,
    DataPrefix \o <<"1">>,
    DataPrefix \o <<"xC3", "xA9">>,
    EventLine(<<Choice(<<Field("reasoning_content", Quoted(<<"r">>))>>)>>) }

\* the unterminated fragment a body may end with
Tails == { <<>>, DoneLine }

\* the body made of the lines ls, each with its terminator, and a tail
RECURSIVE Terminated(_)
Terminated(ls) ==
  IF ls = <<>> THEN <<>> ELSE Head(ls) \o <<"\n">> \o Terminated(Tail(ls))

Bodies ==
  { Terminated(<<l>>) : l \in Lines }
    \cup { Terminated(<<l, <<>>, m>>) \o t : l \in FirstLines, m \in SecondLines, t \in Tails }

\* the largest chunk the upstream transport delivers short of the whole rest
MaxChunk == 3

\* const MODEL_MAPPING = {...}: the entry the requests of the model name
MODEL_MAPPING ==
  Obj(<<[k |-> <<"gpt-4">>, v |-> Str(<<"qwen/qwen3-coder-480b-a35b-instruct">>)]>>)

(***************************************************************************)
(* State.                                                                  *)
(***************************************************************************)
VARIABLES
  file,            \* which server file runs: "part_000" or "server"
  SHOW_REASONING,  \* the reasoning display toggle: a constant of the source,
                   \* false as shipped, true when the operator edits it
  body,            \* the bytes the upstream response will deliver
  pos,             \* how many of them have been delivered
  upstream,        \* response.data: "open", "end" or "error"
  buffer,          \* let buffer = ''
  written,         \* the texts passed to res.write, in order
  ended,           \* whether res.end() has been called
  seen,            \* history: the decoded text appended to buffer so far
  origin,          \* history: for each res.write, the line being processed
  content,         \* the argument of a direct stripReasoning call
  filtered,        \* the results of filtering content once, twice, ...
  phase,           \* where the route handler is: "received", "awaiting" (at
                   \* await axios.post), "streaming" or "responded"
  request,         \* req.body: the caller's model and stream fields
  nimRequest,      \* the body of the request sent upstream
  sent,            \* the res.json calls, in order: status and body
  thrown,          \* history: the error the try block threw, undefined if none
  client,          \* the caller's connection: "connected" or "closed"
  reqs,            \* the streaming requests in flight together: for each its
                   \* upstream chunks, how many were delivered, the state of
                   \* its upstream stream, its res.write calls, its res.end
  buffers          \* the buffer variable of each handler invocation

vars == <<file, SHOW_REASONING, body, pos, upstream, buffer, written, ended, seen,
          origin, content, filtered, phase, request, nimRequest, sent, thrown,
          client, reqs, buffers>>

\* the variables of the route handler around the streaming branch
lifecycle == <<phase, request, nimRequest, sent, thrown, client>>

\* the variables of the requests in flight together
concurrent == <<reqs, buffers>>

Files == {"part_000", "server"}

Init ==
  /\ file \in Files
  /\ SHOW_REASONING \in BOOLEAN
  /\ body \in Bodies
  /\ pos = 0
  /\ upstream = "open"
  /\ buffer = <<>>
  /\ written = <<>>
  /\ ended = FALSE
  /\ seen = <<>>
  /\ origin = <<>>
  /\ content = <<>>
  /\ filtered = <<>>
  /\ phase = "streaming"
  /\ request = [model |-> Str(<<"gpt-4">>), stream |-> TRUE]
  /\ nimRequest = [model |-> Get(MODEL_MAPPING, <<"gpt-4">>), stream |-> TRUE]
  /\ sent = <<>>
  /\ thrown = Undefined
  /\ client = "connected"
  /\ reqs = <<>>
  /\ buffers = <<>>

\* const lines = buffer.split('\n'); buffer = lines.pop() || '': the lines
\* the loop runs over
CompleteLinesAll(lines) == lines

CompleteLines(lines) == Front(lines)

\* the res.write calls of the loop over the lines from position i on: the
\* texts written, in order
RECURSIVE EmitAll(_, _, _, _)
EmitAll(f, show, lines, i) ==
  IF i > Len(lines) THEN <<>>
  ELSE EmitLine(f, show, lines[i]) \o EmitAll(f, show, lines, i + 1)

\* the sizes a chunk may have when rem bytes are left
ChunkSizes(rem) == {n \in 1..rem : n <= MaxChunk \/ n = rem}

\* the 'data' listener: chunk => {...}, run on the next chunk of the body
HandleData ==
  /\ \E n \in ChunkSizes(Len(body) - pos) :
       LET chunk == SubSeq(body, pos + 1, pos + n)
           text == buffer \o toString(chunk)
           lines == Split(text)
           todo == CompleteLines(lines) IN
         /\ pos' = pos + n
         /\ seen' = seen \o toString(chunk)
         /\ buffer' = Last(lines)
         /\ written' = written \o EmitAll(file, SHOW_REASONING, todo, 1)
         /\ origin' = origin \o
              SelectSeq(todo, LAMBDA l : EmitLine(file, SHOW_REASONING, l) # <<>>)
  /\ UNCHANGED <<file, SHOW_REASONING, body, upstream, ended, content, filtered>>
  /\ UNCHANGED lifecycle
  /\ UNCHANGED concurrent

\* response.data.on('data', chunk => ...): a chunk arrives on the open
\* stream
OnData == upstream = "open" /\ HandleData

\* an 'end' handler that processes the fragment left in the buffer before
\* it ends the response
OnEndFlush ==
  /\ upstream = "open"
  /\ pos = Len(body)
  /\ upstream' = "end"
  /\ written' = written \o EmitLine(file, SHOW_REASONING, buffer)
  /\ ended' = TRUE
  /\ UNCHANGED <<file, SHOW_REASONING, body, pos, buffer, seen, origin, content,
                 filtered>>
  /\ UNCHANGED lifecycle
  /\ UNCHANGED concurrent

\* response.data.on('end', () => res.end())
OnEnd ==
  /\ upstream = "open"
  /\ pos = Len(body)
  /\ upstream' = "end"
  /\ ended' = TRUE
  /\ UNCHANGED <<file, SHOW_REASONING, body, pos, buffer, written, seen, origin,
                 content, filtered>>
  /\ UNCHANGED lifecycle
  /\ UNCHANGED concurrent

\* what the 'error' handler passes to res.write before res.end(): nothing
ErrorFrame == <<DataPrefix \o <<"{">> \o Field("error", Quoted(<<"x">>)) \o <<"}", "\n", "\n">>>>

OnErrorWrites == <<>>

\* an 'error' listener that only notes the error and leaves the response open
OnErrorIgnored ==
  /\ upstream = "open"
  /\ upstream' = "error"
  /\ UNCHANGED <<file, SHOW_REASONING, body, pos, buffer, written, ended, seen, origin,
                 content, filtered>>
  /\ UNCHANGED lifecycle
  /\ UNCHANGED concurrent

\* response.data.on('error', () => res.end())
OnError ==
  /\ upstream = "open"
  /\ upstream' = "error"
  /\ written' = written \o OnErrorWrites
  /\ ended' = TRUE
  /\ UNCHANGED <<file, SHOW_REASONING, body, pos, buffer, seen, origin, content, filtered>>
  /\ UNCHANGED lifecycle
  /\ UNCHANGED concurrent

Next == OnData \/ OnEnd \/ OnError

Spec == Init /\ [][Next]_vars

(***************************************************************************)
(* The listeners under an upstream stream that keeps emitting after its    *)
(* 'error' event: the 'error' listener calls res.end() and leaves the      *)
(* stream and the other listeners as they are, so a later 'data' or 'end'  *)
(* event still runs its listener.                                          *)
(***************************************************************************)

\* a 'data' event, delivered while the stream is open or after its 'error'
DataEvent == upstream \in {"open", "error"} /\ HandleData

\* an 'end' event delivered after 'error': res.end() is called again
EndAfterError ==
  /\ upstream = "error"
  /\ pos = Len(body)
  /\ upstream' = "end"
  /\ ended' = TRUE
  /\ UNCHANGED <<file, SHOW_REASONING, body, pos, buffer, written, seen, origin,
                 content, filtered>>
  /\ UNCHANGED lifecycle
  /\ UNCHANGED concurrent

NextAnyOrder == DataEvent \/ OnEnd \/ OnError \/ EndAfterError

SpecAnyOrder == Init /\ [][NextAnyOrder]_vars

(***************************************************************************)
(* The route handler around the streaming branch: the request is built,    *)
(* axios.post is awaited, and its outcome picks the streaming branch, the  *)
(* JSON branch or the catch block.  The third server file ("part_001")     *)
(* forwards events and completions as they came.                           *)
(***************************************************************************)

AllFiles == {"part_000", "server", "part_001"}

\* the model names callers send; undefined when the body carries none
Models == {Str(<<"gpt-4">>), Str(<<"gpt-4", "-", "x">>), Str(<<"m">>), Undefined}

Requests == [model : Models, stream : BOOLEAN]

\* model.toLowerCase()
toLowerCase(text) == [i \in 1..Len(text) |-> Lower(text[i])]

\* let nimModel = MODEL_MAPPING[model] and its fallbacks
NimModel(f, model) ==
  LET mapped == IF model.t = "string" THEN Get(MODEL_MAPPING, model.v) ELSE Undefined IN
    IF Truthy(mapped) THEN Event(mapped)
    ELSE IF f # "part_000" THEN Event(Str(<<"meta/llama-3.1-8b-instruct">>))
    ELSE IF model.t # "string" THEN Threw       \* toLowerCase of undefined
    ELSE LET modelLower == toLowerCase(model.v) IN
      IF Includes(modelLower, <<"gpt-4">>) \/ Includes(modelLower, <<"claude-opus">>)
           \/ Includes(modelLower, <<"405b">>)
      THEN Event(Str(<<"meta/llama-3.1-405b-instruct">>))
      ELSE IF Includes(modelLower, <<"claude">>) \/ Includes(modelLower, <<"gemini">>)
                \/ Includes(modelLower, <<"70b">>)
      THEN Event(Str(<<"meta/llama-3.1-70b-instruct">>))
      ELSE Event(Str(<<"meta/llama-3.1-8b-instruct">>))

\* an own property of an object literal
Prop(k, x) == [k |-> <<k>>, v |-> x]

\* the TypeError a property read of undefined throws
TypeError == Obj(<<Prop("message", Str(<<"TypeError">>))>>)

\* the statuses the upstream API refuses a request with
Statuses == {"401", "429", "503"}

\* the error axios rejects with on a non-2xx status
StatusError(status) ==
  Obj(<<Prop("message", Str(<<"Request failed with status code ", status>>)),
        Prop("response", Obj(<<Prop("status", Num(<<status>>))>>))>>)

\* the error axios rejects with when no response arrived
NetworkError == Obj(<<Prop("message", Str(<<"ECONNREFUSED">>))>>)

Rejections == {StatusError(s) : s \in Statuses} \cup {NetworkError}

\* error.response?.status || 500
Always500(error) == Num(<<"500">>)

StatusOr500(error) ==
  LET status == OptGet(Get(error, Key("response")), Key("status")) IN
    IF Truthy(status) THEN status ELSE Num(<<"500">>)

\* the catch block: res.status(...).json({ error: {...} })
CatchResponse(error) ==
  LET message == Get(error, Key("message")) IN
    [ status |-> StatusOr500(error),
      body |-> Obj(<<Prop("error", Obj(<<
        Prop("message", IF Truthy(message) THEN message
                        ELSE Str(<<"Internal server error">>)),
        Prop("type", Str(<<"invalid_request_error">>)),
        Prop("code", StatusOr500(error))>>))>>) ]

\* the variables of the streaming branch
streaming == <<body, pos, upstream, buffer, written, ended, seen, origin>>

InitRequest ==
  /\ file \in AllFiles
  /\ SHOW_REASONING \in BOOLEAN
  /\ request \in Requests
  /\ phase = "received"
  /\ nimRequest = [model |-> Undefined, stream |-> FALSE]
  /\ sent = <<>>
  /\ thrown = Undefined
  /\ client = "connected"
  /\ reqs = <<>>
  /\ buffers = <<>>
  /\ body = <<>>
  /\ pos = 0
  /\ upstream = "none"
  /\ buffer = <<>>
  /\ written = <<>>
  /\ ended = FALSE
  /\ seen = <<>>
  /\ origin = <<>>
  /\ content = <<>>
  /\ filtered = <<>>

\* the handler up to await axios.post: the upstream request is built and
\* sent, or building it throws and the catch block answers
Build ==
  /\ phase = "received"
  /\ LET m == NimModel(file, request.model) IN
       IF m.threw
       THEN /\ thrown' = TypeError
            /\ sent' = Append(sent, CatchResponse(TypeError))
            /\ phase' = "responded"
            /\ UNCHANGED nimRequest
       ELSE /\ nimRequest' = [model |-> m.data, stream |-> request.stream]
            /\ phase' = "awaiting"
            /\ UNCHANGED <<sent, thrown>>
  /\ UNCHANGED <<file, SHOW_REASONING, request, client, content, filtered>>
  /\ UNCHANGED streaming
  /\ UNCHANGED concurrent

\* await axios.post rejects: the catch block answers
AxiosRejects ==
  /\ phase = "awaiting"
  /\ \E error \in Rejections :
       /\ thrown' = error
       /\ sent' = Append(sent, CatchResponse(error))
  /\ phase' = "responded"
  /\ UNCHANGED <<file, SHOW_REASONING, request, nimRequest, client, content, filtered>>
  /\ UNCHANGED streaming
  /\ UNCHANGED concurrent

\* the bodies a streamed upstream response delivers
StreamBodies == {Terminated(<<l>>) \o t : l \in FirstLines \cup SecondLines, t \in Tails}

\* await axios.post resolves and stream is set: the headers are set, the
\* buffer is created and the listeners are registered
BeginStream ==
  /\ phase = "awaiting"
  /\ request.stream
  /\ body' \in StreamBodies
  /\ upstream' = "open"
  /\ buffer' = <<>>
  /\ phase' = "streaming"
  /\ UNCHANGED <<file, SHOW_REASONING, request, nimRequest, sent, thrown, client,
                 content, filtered, pos, written, ended, seen, origin>>
  /\ UNCHANGED concurrent

\* the caller closes the connection while the stream runs; the handler
\* registers no listener for it, so nothing of the handler's state changes
ClientClose ==
  /\ phase = "streaming"
  /\ client = "connected"
  /\ client' = "closed"
  /\ UNCHANGED <<file, SHOW_REASONING, request, nimRequest, sent, thrown, phase,
                 content, filtered>>
  /\ UNCHANGED streaming
  /\ UNCHANGED concurrent

(***************************************************************************)
(* The JSON branch: the upstream completion is re-wrapped and sent with    *)
(* res.json.                                                               *)
(***************************************************************************)

\* an object in JSON text
Braces(fields) == <<"{">> \o JoinComma(fields) \o <<"}">>

\* the choice of a completion: {"index":i, "message":{...}, "finish_reason":"stop"}
MessageChoice(i, fields) ==
  Braces(<<Field("index", <<i>>), Field("message", Braces(fields)),
           Field("finish_reason", Quoted(<<"stop">>))>>)

Assistant == Field("role", Quoted(<<"assistant">>))

UsageText ==
  Braces(<<Field("prompt_tokens", <<"2">>), Field("completion_tokens", <<"2">>),
           Field("total_tokens", <<"4">>)>>)

\* the bodies a complete upstream response carries
JsonBodies ==
  { Braces(<<Field("choices", <<"[">> \o MessageChoice("0",
               <<Assistant, Field("content", Quoted(TaggedAnswer)),
                 Field("reasoning_content", Quoted(<<"r">>))>>) \o <<"]">>),
             Field("usage", UsageText)>>),
    Braces(<<Field("choices", <<"[">> \o MessageChoice("0",
               <<Assistant, Field("content", Quoted(<<" ", "x", " ">>))>>) \o <<"]">>)>>),
    Braces(<<Field("id", Quoted(<<"x">>))>>),
    Braces(<<Field("choices", <<"[">> \o Braces(<<Field("index", <<"0">>),
               Field("finish_reason", Quoted(<<"stop">>))>>) \o <<"]">>)>>),
    Braces(<<Field("choices", <<"[">> \o MessageChoice("0",
               <<Assistant, Field("content", <<"null">>)>>) \o <<"]">>),
             Field("usage", <<"null">>)>>),
    Braces(<<Field("choices", <<"[">> \o JoinComma(<<
               MessageChoice("0", <<Assistant, Field("content", Quoted(<<"x">>))>>),
               MessageChoice("1", <<Assistant, Field("content", Quoted(TaggedAnswer))>>)>>)
               \o <<"]">>),
             Field("usage", UsageText)>>) }

\* response.data with responseType 'json': the body parsed, or the body
\* itself when it is not JSON
ResponseData(text) ==
  LET p == JSONparse(text) IN IF p.ok THEN p.val ELSE Str(text)

\* res.json(value): JSON leaves out the properties whose value is undefined
RECURSIVE Json(_)
Json(x) ==
  CASE x.t = "object" ->
         LET kept == SelectSeq(x.v, LAMBDA p : p.v.t # "undefined") IN
           Obj([i \in 1..Len(kept) |-> [k |-> kept[i].k, v |-> Json(kept[i].v)]])
    [] x.t = "array" ->
         Arr([i \in 1..Len(x.v) |->
               IF x.v[i].t = "undefined" THEN Null ELSE Json(x.v[i])])
    [] OTHER -> x

\* { prompt_tokens: 0, completion_tokens: 0, total_tokens: 0 }
ZeroUsage ==
  Obj(<<Prop("prompt_tokens", Num(<<"0">>)), Prop("completion_tokens", Num(<<"0">>)),
        Prop("total_tokens", Num(<<"0">>))>>)

\* the callback part_000 maps over the choices
ChoiceOut000(choice, show) ==
  IF IsNullish(choice) THEN Threw                       \* message of undefined
  ELSE LET message == Get(choice, Key("message"))
           found == OptGet(message, Key("content"))
           text == IF Truthy(found) THEN found ELSE Str(<<>>) IN
    IF ~show /\ text.t # "string" THEN Threw            \* content.replace is not a function
    ELSE IF IsNullish(message) THEN Threw               \* role of undefined
    ELSE Event(Obj(<<
      Prop("index", Get(choice, Key("index"))),
      Prop("message", Obj(<<
        Prop("role", Get(message, Key("role"))),
        Prop("content", IF show THEN text ELSE Str(stripReasoning(text.v)))>>)),
      Prop("finish_reason", Get(choice, Key("finish_reason")))>>))

\* the callback server.js maps over the choices
ChoiceOutServer(choice) ==
  IF IsNullish(choice) THEN Threw                       \* message of undefined
  ELSE LET message == Get(choice, Key("message"))
           found == OptGet(message, Key("content"))
           role == OptGet(message, Key("role")) IN
    Event(Obj(<<
      Prop("index", Get(choice, Key("index"))),
      Prop("message", Obj(<<
        Prop("role", IF IsNullish(role) THEN Str(<<"assistant">>) ELSE role),
        Prop("content", IF IsNullish(found) THEN Str(<<>>) ELSE found)>>)),
      Prop("finish_reason", Get(choice, Key("finish_reason")))>>))

\* choices.map(callback) from position i on; out holds the results so far
RECURSIVE MapChoices(_, _, _, _, _)
MapChoices(f, show, cs, i, out) ==
  IF i > Len(cs) THEN Event(Arr(out))
  ELSE LET r == IF f = "part_000" THEN ChoiceOut000(cs[i], show)
                ELSE ChoiceOutServer(cs[i]) IN
    IF r.threw THEN Threw ELSE MapChoices(f, show, cs, i + 1, Append(out, r.data))

\* the choices of the envelope
ChoicesOut(f, show, data) ==
  LET found == Get(data, Key("choices"))
      choices == IF f = "part_000" \/ Truthy(found) THEN found ELSE Arr(<<>>) IN
    IF f = "part_001" THEN Event(choices)
    ELSE IF choices.t # "array" THEN Threw              \* map of undefined
    ELSE MapChoices(f, show, choices.v, 1, <<>>)

\* the usage of the envelope: response.data.usage ?? zeros in part_000,
\* response.data.usage || zeros elsewhere
UsageOut(f, data) ==
  LET usage == Get(data, Key("usage")) IN
    IF f = "part_000"
    THEN IF IsNullish(usage) THEN ZeroUsage ELSE usage
    ELSE IF Truthy(usage) THEN usage ELSE ZeroUsage

\* Date.now() when the envelope is built
Now == <<"1700000000000">>

\* the envelope passed to res.json, or the throw that prevents it
Completion(f, show, model, data) ==
  LET choices == ChoicesOut(f, show, data) IN
    IF choices.threw THEN Threw
    ELSE Event(Json(Obj(<<
      Prop("id", Str(<<"chatcmpl-">> \o Now)),
      Prop("object", Str(<<"chat.completion">>)),
      Prop("created", Num(<<"1700000000">>)),
      Prop("model", model),
      Prop("choices", choices.data),
      Prop("usage", UsageOut(f, data))>>)))

\* await axios.post resolves and stream is not set: the envelope is sent,
\* or building it throws and the catch block answers
RespondJson ==
  /\ phase = "awaiting"
  /\ ~request.stream
  /\ \E text \in JsonBodies :
       LET r == Completion(file, SHOW_REASONING, request.model, ResponseData(text)) IN
         /\ body' = text
         /\ pos' = Len(text)
         /\ IF r.threw
            THEN /\ thrown' = TypeError
                 /\ sent' = Append(sent, CatchResponse(TypeError))
            ELSE /\ sent' = Append(sent, [status |-> Num(<<"200">>), body |-> r.data])
                 /\ UNCHANGED thrown
  /\ phase' = "responded"
  /\ UNCHANGED <<file, SHOW_REASONING, request, nimRequest, client, content, filtered,
                 upstream, buffer, written, ended, seen, origin>>
  /\ UNCHANGED concurrent

NextRequest ==
  \/ Build
  \/ AxiosRejects
  \/ RespondJson
  \/ BeginStream
  \/ OnData
  \/ OnEnd
  \/ OnError
  \/ ClientClose

SpecRequest == InitRequest /\ [][NextRequest]_vars

(***************************************************************************)
(* Several streaming requests in flight together.  Every invocation of the *)
(* route handler registers its own listeners on its own response.data and  *)
(* res, and the listeners close over the buffer declared by that           *)
(* invocation.                                                             *)
(***************************************************************************)

\* how many requests are in flight together
NumRequests == 2

\* the chunks an upstream response arrives in
Feeds ==
  { <<DataPrefix, <<"1", "\n">>>>,
    << <<"d", "a">>,
       <<"t", "a", ":", " ">> \o DONE \o <<"\n", "d", "a">>,
       <<"t", "a", ":", " ", "1">> >>,
    << EventLine(<<Choice(<<Field("reasoning_content", Quoted(<<"r">>))>>)>>) \o <<"\n">> >> }

\* a buffer declared at module level, shared by every invocation
BufferOfModule(r) == 1

\* let buffer = '': the buffer the listeners of request r close over is the
\* one its own invocation declared
BufferOf(r) == r

\* the body of the 'data' listener: the new buffer and the res.write calls
Feed(f, show, buf, chunk) ==
  LET lines == Split(buf \o toString(chunk)) IN
    [buffer |-> Last(lines), writes |-> EmitAll(f, show, CompleteLines(lines), 1)]

InitConcurrent ==
  /\ file \in Files
  /\ SHOW_REASONING \in BOOLEAN
  /\ reqs \in [1..NumRequests ->
        [feed : Feeds, n : {0}, upstream : {"open"}, written : {<<>>}, ended : {FALSE}]]
  /\ buffers = [r \in 1..NumRequests |-> <<>>]
  /\ body = <<>>
  /\ pos = 0
  /\ upstream = "none"
  /\ buffer = <<>>
  /\ written = <<>>
  /\ ended = FALSE
  /\ seen = <<>>
  /\ origin = <<>>
  /\ content = <<>>
  /\ filtered = <<>>
  /\ phase = "streaming"
  /\ request = [model |-> Str(<<"gpt-4">>), stream |-> TRUE]
  /\ nimRequest = [model |-> Get(MODEL_MAPPING, <<"gpt-4">>), stream |-> TRUE]
  /\ sent = <<>>
  /\ thrown = Undefined
  /\ client = "connected"

\* what the concurrent steps leave alone
single == <<file, SHOW_REASONING, body, pos, upstream, buffer, written, ended, seen,
            origin, content, filtered>>

\* a 'data' event of request r
DataOf(r) ==
  /\ reqs[r].upstream = "open"
  /\ reqs[r].n < Len(reqs[r].feed)
  /\ LET step == Feed(file, SHOW_REASONING, buffers[BufferOf(r)],
                      reqs[r].feed[reqs[r].n + 1]) IN
       /\ buffers' = [buffers EXCEPT ![BufferOf(r)] = step.buffer]
       /\ reqs' = [reqs EXCEPT ![r].n = @ + 1, ![r].written = @ \o step.writes]
  /\ UNCHANGED single
  /\ UNCHANGED lifecycle

\* the 'end' event of request r
EndOf(r) ==
  /\ reqs[r].upstream = "open"
  /\ reqs[r].n = Len(reqs[r].feed)
  /\ reqs' = [reqs EXCEPT ![r].upstream = "end", ![r].ended = TRUE]
  /\ UNCHANGED buffers
  /\ UNCHANGED single
  /\ UNCHANGED lifecycle

\* an 'error' event of request r
ErrorOf(r) ==
  /\ reqs[r].upstream = "open"
  /\ reqs' = [reqs EXCEPT ![r].upstream = "error", ![r].ended = TRUE]
  /\ UNCHANGED buffers
  /\ UNCHANGED single
  /\ UNCHANGED lifecycle

NextConcurrent == \E r \in 1..NumRequests : DataOf(r) \/ EndOf(r) \/ ErrorOf(r)

SpecConcurrent == InitConcurrent /\ [][NextConcurrent]_vars

(***************************************************************************)
(* The content filter on its own: stripReasoning applied to a text, then   *)
(* to its own result.                                                      *)
(***************************************************************************)

\* the pieces the filtered texts are made of
Parts ==
  { <<"<", "thinking", ">">>,
    <<"<", "/", "thinking", ">">>,
    <<"<", " ", "ANALYSIS", " ", "x", ">">>,
    <<"<", " ", "/", " ", "analysis", " ", ">">>,
    <<"<">>,
    <<"thinking", ">">>,
    <<"Final", " ", "Answer:">>,
    <<"Answer:">>,
    <<" ">>,
    <<"x">> }

\* the most pieces a filtered text is made of
MaxParts == 3

\* how many times the filter is applied in a row
MaxPasses == 2

\* the texts made of exactly n pieces
RECURSIVE TextsOf(_)
TextsOf(n) ==
  IF n = 0 THEN {<<>>} ELSE {t \o q : t \in TextsOf(n - 1), q \in Parts}

Texts == UNION {TextsOf(n) : n \in 0..MaxParts}

InitStrip ==
  /\ content \in Texts
  /\ filtered = <<>>
  /\ file = "part_000"
  /\ SHOW_REASONING = FALSE
  /\ body = <<>>
  /\ pos = 0
  /\ upstream = "none"
  /\ buffer = <<>>
  /\ written = <<>>
  /\ ended = FALSE
  /\ seen = <<>>
  /\ origin = <<>>
  /\ phase = "none"
  /\ request = [model |-> Undefined, stream |-> FALSE]
  /\ nimRequest = [model |-> Undefined, stream |-> FALSE]
  /\ sent = <<>>
  /\ thrown = Undefined
  /\ client = "connected"
  /\ reqs = <<>>
  /\ buffers = <<>>

\* content = stripReasoning(content)
ApplyFilter ==
  /\ Len(filtered) < MaxPasses
  /\ filtered' = Append(filtered,
       stripReasoning(IF filtered = <<>> THEN content ELSE Last(filtered)))
  /\ UNCHANGED <<file, SHOW_REASONING, body, pos, upstream, buffer, written, ended,
                 seen, origin, content>>
  /\ UNCHANGED lifecycle
  /\ UNCHANGED concurrent

NextStrip == ApplyFilter

SpecStrip == InitStrip /\ [][NextStrip]_vars

(***************************************************************************)
(* Vocabulary of the claims.                                               *)
(***************************************************************************)

\* the complete lines of the text decoded so far
LinesSeen == SubSeq(Split(seen), 1, Len(Split(seen)) - 1)

\* those of them that carry the data prefix
DataLinesSeen == SelectSeq(LinesSeen, LAMBDA l : StartsWith(l, DataPrefix))

\* the payload a written frame carries: the text between 'data: ' and the
\* terminators that end the frame
FramePayload(w) ==
  LET e == IF \E j \in 1..Len(w) : w[j] # "\n"
           THEN CHOOSE j \in 1..Len(w) : w[j] # "\n" /\ \A k \in (j + 1)..Len(w) : w[k] = "\n"
           ELSE 0
  IN SubSeq(w, Len(DataPrefix) + 1, e)

\* the payload of an upstream data line
LinePayload(line) == SubSeq(line, Len(DataPrefix) + 1, Len(line))

\* the choice entries of an event
ChoicesOf(x) ==
  IF x.t = "object" /\ Get(x, <<"choices">>).t = "array"
  THEN Get(x, <<"choices">>).v ELSE <<>>

\* the delta of a choice entry
DeltaOf(c) == IF c.t = "object" THEN Get(c, <<"delta">>) ELSE Undefined

\* a field of the delta of a choice entry
DeltaField(c, k) == IF DeltaOf(c).t = "object" THEN Get(DeltaOf(c), <<k>>) ELSE Undefined

\* whether the delta of a choice entry has the field at all, whatever its value
HasDeltaField(c, k) == DeltaOf(c).t = "object" /\ KeyIndex(DeltaOf(c).v, <<k>>, 1) # 0

\* the i-th write and the line it was written for, parsed
EventIn(i) == JSONparse(LinePayload(origin[i]))

EventOut(i) == JSONparse(FramePayload(written[i]))

(***************************************************************************)
(* Claims.                                                                 *)
(***************************************************************************)

\* C1: chunk-boundary independence.  However the bytes delivered so far were
\* cut into chunks, the frames written are those written when the same bytes
\* arrive as one chunk.
C1_ChunkBoundaryIndependence ==
  LET whole == Split(toString(SubSeq(body, 1, pos))) IN
    written = EmitAll(file, SHOW_REASONING, SubSeq(whole, 1, Len(whole) - 1), 1)

\* C2: a complete line that does not begin with 'data: ' causes no write:
\* every write was made for a line that starts with 'data: '.
C2_OnlyDataLinesForwarded ==
  /\ Len(origin) = Len(written)
  /\ \A i \in 1..Len(origin) : StartsWith(origin[i], DataPrefix)

\* C2 witness: a non-empty line without the prefix has been completed and a
\* data line has been forwarded.
C2_Witness ==
  /\ \E i \in 1..Len(LinesSeen) :
       LinesSeen[i] # <<>> /\ ~StartsWith(LinesSeen[i], DataPrefix)
  /\ written # <<>>

\* C3: every complete line 'data: [DONE]' is written unmodified followed by
\* '\n\n', whatever the filter setting.
C3_SentinelForwardedVerbatim ==
  /\ Len(origin) = Len(written)
  /\ \A i \in 1..Len(origin) :
       origin[i] = DoneLine => written[i] = DoneLine \o <<"\n", "\n">>

\* C4: for a data line whose payload parses, the frame written holds no
\* reasoning_content field in the delta of any of its choices.
C4_NoReasoningFieldForwarded ==
  \A i \in 1..Len(written) :
    EventIn(i).ok =>
      /\ EventOut(i).ok
      /\ \A j \in 1..Len(ChoicesOf(EventOut(i).val)) :
           ~HasDeltaField(ChoicesOf(EventOut(i).val)[j], "reasoning_content")

\* C5: with content-stripping enabled, for a data line whose payload parses,
\* the content of every choice of the frame written is stripReasoning of
\* that choice's input content.
C5_EveryChoiceFiltered ==
  (file = "part_000" /\ ~SHOW_REASONING) =>
    \A i \in 1..Len(written) :
      EventIn(i).ok =>
        \A j \in 1..Len(ChoicesOf(EventIn(i).val)) :
          LET cin == DeltaField(ChoicesOf(EventIn(i).val)[j], "content") IN
            cin.t = "string" =>
              /\ EventOut(i).ok
              /\ j <= Len(ChoicesOf(EventOut(i).val))
              /\ DeltaField(ChoicesOf(EventOut(i).val)[j], "content")
                   = Str(stripReasoning(cin.v))

\* C6: a data line, other than the sentinel, whose payload fails to parse is
\* written as the original line followed by a single '\n', and the lines
\* after it are still processed (one write per data line seen).
C6_MalformedLineForwarded ==
  /\ origin = DataLinesSeen
  /\ Len(written) = Len(origin)
  /\ \A i \in 1..Len(written) :
       (origin[i] # DoneLine /\ ~EventIn(i).ok) => written[i] = origin[i] \o <<"\n">>

\* C7: the content filter is idempotent: filtering a filtered text changes
\* nothing.
C7_FilterIdempotent ==
  Len(filtered) >= 2 => filtered[2] = filtered[1]

\* Where the answer starts in a content made of tagged sections and
\* narrative followed by a marker and the answer: the position after the
\* first marker outside the tagged sections; 0 when content is not of that
\* shape (no marker, a stray "<" before it, or a "<" in the answer).
RECURSIVE AnswerStart(_, _)
AnswerStart(s, i) ==
  IF i > Len(s) THEN 0
  ELSE IF MarkerLenAt(s, i) # 0 THEN
    (IF \E k \in (i + MarkerLenAt(s, i))..Len(s) : s[k] = "<" THEN 0
     ELSE i + MarkerLenAt(s, i))
  ELSE IF s[i] = "<" THEN
    (IF TagMatchAt(s, i) # 0 THEN AnswerStart(s, TagMatchAt(s, i) + 1) ELSE 0)
  ELSE AnswerStart(s, i + 1)

\* C8: with content-stripping enabled, a content made of tagged sections
\* and narrative followed by a marker and a text T is written as T trimmed.
C8_AnswerKept ==
  (file = "part_000" /\ ~SHOW_REASONING) =>
    \A i \in 1..Len(written) :
      EventIn(i).ok =>
        \A j \in 1..Len(ChoicesOf(EventIn(i).val)) :
          LET cin == DeltaField(ChoicesOf(EventIn(i).val)[j], "content") IN
            (cin.t = "string" /\ AnswerStart(cin.v, 1) # 0) =>
              /\ EventOut(i).ok
              /\ j <= Len(ChoicesOf(EventOut(i).val))
              /\ DeltaField(ChoicesOf(EventOut(i).val)[j], "content")
                   = Str(Trim(SubSeq(cin.v, AnswerStart(cin.v, 1), Len(cin.v))))

\* C9: after every chunk the writes correspond one to one, in order, to the
\* complete data lines received so far: as many writes as data lines, the
\* i-th write made for the i-th data line and being that line's frame.
C9_OneToOneInOrder ==
  /\ Len(written) = Len(DataLinesSeen)
  /\ origin = DataLinesSeen
  /\ \A i \in 1..Len(written) :
       <<written[i]>> = EmitLine(file, SHOW_REASONING, DataLinesSeen[i])

\* C9 witness: two frames written and a line cut by a chunk boundary waiting
\* in the buffer.
C9_Witness == Len(written) >= 2 /\ buffer # <<>> /\ pos < Len(body)

\* C10: an upstream error ends the response and writes nothing: the output
\* is the frames of the lines completed before the error.
C10_ErrorEndsSilently ==
  /\ [][(upstream = "open" /\ upstream' = "error") => (ended' /\ written' = written)]_vars
  /\ [](upstream = "error" =>
          /\ ended
          /\ written = EmitAll(file, SHOW_REASONING, LinesSeen, 1))

\* C10 witness: the error came after a frame was written and in the middle
\* of a line.
C10_Witness == upstream = "error" /\ written # <<>> /\ buffer # <<>>

\* C11: when the caller disconnects during streaming the re-framer stops:
\* from the disconnect on no upstream chunk is turned into a downstream
\* write or kept in the line buffer, and every write made is a whole frame,
\* closed by a terminator.
C11_DisconnectStopsReframer ==
  /\ [][client = "closed" => written' = written /\ buffer' = <<>>]_vars
  /\ [](\A i \in 1..Len(written) : Last(written[i]) = "\n")

\* the status the upstream answered the failed request with, 500 when the
\* failure carries none
UpstreamStatus(error) ==
  LET response == Get(error, <<"response">>) IN
    IF response.t = "object" /\ Get(response, <<"status">>).t = "number"
    THEN Get(response, <<"status">>) ELSE Num(<<"500">>)

\* C12: a failure of the handler before streaming begins produces exactly
\* one response, the error object: a message, the type
\* 'invalid_request_error' and a numeric code that is the upstream status
\* when there is one and 500 otherwise, sent with that same HTTP status;
\* no frame is written and no completion envelope is sent.
C12_FailureAnswersOnce ==
  thrown # Undefined =>
    /\ Len(sent) = 1
    /\ sent[1].status = UpstreamStatus(thrown)
    /\ LET error == Get(sent[1].body, <<"error">>) IN
         /\ sent[1].body = Obj(<<[k |-> <<"error">>, v |-> error]>>)
         /\ error.t = "object"
         /\ Get(error, <<"message">>).t = "string"
         /\ Get(error, <<"message">>).v # <<>>
         /\ Get(error, <<"type">>) = Str(<<"invalid_request_error">>)
         /\ Get(error, <<"code">>).t = "number"
         /\ Get(error, <<"code">>) = UpstreamStatus(thrown)
    /\ written = <<>>
    /\ ~ended
    /\ upstream = "none"

\* C12 witness: the upstream refused the request with status 429 and the
\* handler has answered.
C12_Witness ==
  /\ Get(Get(thrown, <<"response">>), <<"status">>) = Num(<<"429">>)
  /\ sent # <<>>

\* C13: a complete upstream response is answered with the envelope and
\* never with an error, also when it carries no choices or a choice carries
\* no message: the envelope has an id, the object 'chat.completion', a
\* creation time, the caller's model name as it was sent, one choice per
\* upstream choice and the upstream usage or all zeros when there is none;
\* no message sent carries the reasoning field, and where the content
\* filter is on every choice's content is the upstream content filtered
\* once.
C13_CompletionRewrapped ==
  (phase = "responded" /\ ~request.stream /\ body # <<>>) =>
    /\ Len(sent) = 1
    /\ sent[1].status = Num(<<"200">>)
    /\ LET out == sent[1].body
           data == ResponseData(body)
           cin == ChoicesOf(data)
           cout == Get(out, <<"choices">>) IN
         /\ Get(out, <<"id">>).t = "string"
         /\ Get(out, <<"object">>) = Str(<<"chat.completion">>)
         /\ Get(out, <<"created">>).t = "number"
         /\ Get(out, <<"model">>) = request.model
         /\ Get(out, <<"model">>) # nimRequest.model
         /\ Get(out, <<"usage">>) =
              IF Get(data, <<"usage">>).t = "object" THEN Get(data, <<"usage">>)
              ELSE Obj(<<[k |-> <<"prompt_tokens">>, v |-> Num(<<"0">>)],
                         [k |-> <<"completion_tokens">>, v |-> Num(<<"0">>)],
                         [k |-> <<"total_tokens">>, v |-> Num(<<"0">>)]>>)
         /\ cout.t = "array"
         /\ Len(cout.v) = Len(cin)
         /\ \A j \in 1..Len(cin) :
              LET min == Get(cin[j], <<"message">>)
                  mout == Get(cout.v[j], <<"message">>) IN
                /\ Get(mout, <<"reasoning_content">>) = Undefined
                /\ (file = "part_000" /\ ~SHOW_REASONING
                      /\ Get(min, <<"content">>).t = "string") =>
                     Get(mout, <<"content">>)
                       = Str(stripReasoning(Get(min, <<"content">>).v))

\* the position of the last line terminator of the text received, 0 when
\* there is none
LastTerminator ==
  IF \E i \in 1..Len(seen) : seen[i] = "\n"
  THEN CHOOSE i \in 1..Len(seen) :
         seen[i] = "\n" /\ \A k \in (i + 1)..Len(seen) : seen[k] # "\n"
  ELSE 0

\* C14: after every chunk the line buffer is exactly the text received
\* after the last line terminator (empty when the text ends on one) and
\* holds no terminator; a chunk causes writes only for the data lines it
\* completes, so a line flushed earlier is never processed again.
C14_LineBufferInvariant ==
  /\ [](/\ buffer = SubSeq(seen, LastTerminator + 1, Len(seen))
        /\ \A i \in 1..Len(buffer) : buffer[i] # "\n")
  /\ [][/\ Len(origin') - Len(origin) = Len(DataLinesSeen') - Len(DataLinesSeen)
        /\ SubSeq(origin', 1, Len(origin)) = origin
        /\ SubSeq(written', 1, Len(written)) = written]_vars

\* C14 witness: a line has been flushed, and the text received after its
\* terminator waits in the buffer.
C14_Witness == LastTerminator > 0 /\ LastTerminator < Len(seen) /\ origin # <<>>

\* C15: the 'end' handler writes nothing: the step that ends the upstream
\* stream leaves the writes as they were, so after the end the output is
\* the frames of the terminated lines only, and a final line without a
\* terminator (a final 'data: [DONE]' included) stays in the buffer and is
\* never forwarded.
C15_EndDiscardsFragment ==
  /\ [][(upstream = "open" /\ upstream' = "end") =>
          (written' = written /\ buffer' = buffer)]_vars
  /\ [](upstream = "end" =>
          /\ Len(written) = Len(DataLinesSeen)
          /\ written = EmitAll(file, SHOW_REASONING, LinesSeen, 1))

\* C15 witness: the stream ended while the buffer held an unterminated
\* 'data: [DONE]'.
C15_Witness == upstream = "end" /\ buffer = DoneLine /\ ended

\* what a request that runs alone has in its buffer and has written after
\* the first n chunks of its upstream response
RECURSIVE RunAlone(_, _)
RunAlone(feed, n) ==
  IF n = 0 THEN [buffer |-> <<>>, written |-> <<>>]
  ELSE LET before == RunAlone(feed, n - 1)
           step == Feed(file, SHOW_REASONING, before.buffer, feed[n]) IN
    [buffer |-> step.buffer, written |-> before.written \o step.writes]

\* C16: with several streaming requests in flight and their events
\* interleaved in any order, the line buffer and the output of each request
\* are what they would be had the request run alone on its own upstream
\* events, and a request's response is ended by its own upstream only.
C16_PerRequestIsolation ==
  \A r \in DOMAIN reqs :
    /\ buffers[r] = RunAlone(reqs[r].feed, reqs[r].n).buffer
    /\ reqs[r].written = RunAlone(reqs[r].feed, reqs[r].n).written
    /\ reqs[r].ended = (reqs[r].upstream \in {"end", "error"})

\* C16 witness: two requests are in the middle of different lines at once,
\* one of them with a frame already written, while the other has ended.
C16_Witness ==
  /\ DOMAIN reqs # {}
  /\ buffers[1] # <<>>
  /\ reqs[1].written # <<>>
  /\ reqs[1].upstream = "open"
  /\ reqs[2].n > 0
  /\ reqs[2].written # <<>>
  /\ reqs[2].ended

\* the write made for a data line that goes through the parser: the event
\* parsed, filtered and serialised again, or the line itself when the
\* parse fails
ParsedFrame(f, show, line) ==
  LET r == IF f = "part_000" THEN Try000(LinePayload(line), show)
           ELSE TryServer(LinePayload(line)) IN
    IF r.threw THEN line \o <<"\n">>
    ELSE DataPrefix \o JSONstringify(r.data) \o <<"\n", "\n">>

\* C17: only the data line whose payload is exactly '[DONE]' is forwarded
\* verbatim as the sentinel; every other data line, also one whose text
\* holds '[DONE]', goes through the parser and the write made for it is
\* the parsed event with the reasoning removal and the content filter
\* applied (the line itself, singly terminated, when the parse fails).
C17_SentinelOnlyWhenEqual ==
  \A i \in 1..Len(written) :
    LinePayload(origin[i]) # DONE =>
      written[i] = ParsedFrame(file, SHOW_REASONING, origin[i])

\* C18: no res.write is made once res.end() has been called, whatever the
\* order of the upstream 'data', 'end' and 'error' events, a 'data' event
\* after 'error' included.
C18_NoWriteAfterEnd == [][ended => written' = written]_vars

\* C19: a streaming request whose upstream stream has ended or failed has
\* its response ended, by that very event; nothing but the upstream's end
\* or error ends the response; and from the moment streaming begins no
\* res.json call, so no error object, is made for the request.
C19_StreamEndsWithUpstream ==
  /\ [](phase = "streaming" /\ upstream \in {"end", "error"} => ended)
  /\ [][(~ended /\ ended') => (upstream = "open" /\ upstream' \in {"end", "error"})]_vars
  /\ [](phase = "streaming" => sent = <<>>)
  /\ [][phase = "streaming" => phase' = "streaming"]_vars

\* C19 witness: a request that went through await axios.post into the
\* streaming branch had frames written and was then ended by an upstream
\* error.
C19_Witness ==
  /\ phase = "streaming"
  /\ nimRequest.stream
  /\ upstream = "error"
  /\ ended
  /\ written # <<>>
  /\ sent = <<>>

====
